---- MODULE Spec2Model ----
(***************************************************************************)
(* Model of main_script.py: the interactive SVN tag creator.  One run of   *)
(* main() is a sequential process; its steps are split at the points where *)
(* it blocks on the outside world (console input, the configuration file,  *)
(* the svn backend, the log file).                                         *)
(*                                                                         *)
(* Text is modelled as a sequence of atoms (strings that no operation of   *)
(* the program cuts): formatting is concatenation, str.split cuts at the   *)
(* separator atom.  The log file is the sequence of atoms written to it.   *)
(*                                                                         *)
(* Assumed of the environment: appending to the log file itself succeeds   *)
(* (no I/O error on open/write), and the console is not closed.            *)
(***************************************************************************)
EXTENDS Integers, Sequences, FiniteSets, TLC

\* ---------------------------------------------------------------- bounds
MaxFolders == 2      \* longest folder list of a configuration document
MaxPrompts == 2      \* re-prompts of the menu that are explored
MaxInput   == 3      \* integers 0..MaxInput are typed at the prompt

\* ------------------------------------------------------------- text atoms
US == "_"
NL == "\n"

\* str.split(sep, maxsplit): cut s at the first maxsplit occurrences of sep
RECURSIVE split(_, _, _)
split(s, sep, maxsplit) ==
    LET hits == {j \in 1..Len(s) : s[j] = sep}
    IN  IF maxsplit = 0 \/ hits = {}
        THEN <<s>>
        ELSE LET j == CHOOSE h \in hits : \A g \in hits : h <= g
             IN  <<SubSeq(s, 1, j - 1)>> \o split(SubSeq(s, j + 1, Len(s)), sep, maxsplit - 1)

\* ------------------------------------------------------------------ menu
bm_options == (1 :> "01_BEV_SP21_7k4W.xml") @@ (2 :> "02_BEV_SP21_22kW.xml")

MenuFiles == {bm_options[k] : k \in DOMAIN bm_options}

\* get_user_selection on an integer input: the file name, or the hard exit
get_user_selection_lenient(selection) ==
    IF selection \in DOMAIN bm_options
    THEN [exits |-> FALSE, file |-> bm_options[selection]]
    ELSE [exits |-> FALSE, file |-> bm_options[1]]

get_user_selection(selection) ==
    IF selection \in DOMAIN bm_options
    THEN [exits |-> FALSE, file |-> bm_options[selection]]
    ELSE [exits |-> TRUE, file |-> ""]

\* -------------------------------------------------- configuration documents
FolderSpecs ==
    { <<(<<"Motor", US, "7k4W", US, "Alpha">>), <<"120">>>>,
      <<(<<"Inverter", US, "22kW">>), <<"85">>>>,
      <<(<<"SingleName">>), <<"120">>>>,
      <<(<<"A", US, "B", US, "RestOfName">>), <<"85">>>>,
      <<(<<"A", US, "B", US, "C", US, "D">>), <<"7">>>> }

RECURSIVE SeqsUpTo(_, _)
SeqsUpTo(S, n) ==
    IF n = 0 THEN {<<>>}
    ELSE LET shorter == SeqsUpTo(S, n - 1)
         IN  shorter \cup {Append(q, x) : q \in {r \in shorter : Len(r) = n - 1}, x \in S}

\* a folder element: its attributes, and which of them the element lacks
FolderElement(spec, lacking) == [name |-> spec[1], revision |-> spec[2], lacking |-> lacking]

\* a document: well-formedness, the children/attributes it lacks, its values
Document(ok, lacking, tag, folders) ==
    [wellformed |-> ok, lacking |-> lacking,
     root_tag |-> tag, root_svn_path |-> <<"/repo/tags">>, root_source |-> <<"/repo/trunk">>,
     folders |-> folders]

GoodDocuments ==
    { Document(TRUE, {}, <<"TAG1">>, [k \in 1..Len(fs) |-> FolderElement(fs[k], {})]) :
        fs \in SeqsUpTo(FolderSpecs, MaxFolders) }

OneFolder == <<FolderElement(<<(<<"SingleName">>), <<"120">>>>, {})>>

BadDocuments ==
    { Document(FALSE, {}, <<"TAG1">>, OneFolder),
      Document(TRUE, {"root_tag"}, <<"TAG1">>, OneFolder),
      Document(TRUE, {"root_svn_path"}, <<"TAG1">>, OneFolder),
      Document(TRUE, {"root_source"}, <<"TAG1">>, OneFolder),
      Document(TRUE, {}, <<"TAG1">>, <<FolderElement(<<(<<"SingleName">>), <<"120">>>>, {"revision"})>>) }

\* the second menu file is explored over a smaller set of documents
OtherDocuments ==
    { Document(TRUE, {}, <<"TAG2">>, OneFolder),
      Document(FALSE, {}, <<"TAG2">>, OneFolder) }

NoConfig == [parsed |-> FALSE, root_tag |-> <<>>, root_svn_path |-> <<>>,
             source_url |-> <<>>, bm_folders |-> <<>>]

parse_raises_only_malformed(doc) == ~doc.wellformed

\* parse_xml_config raises (ParseError, AttributeError on a missing child,
\* KeyError on a missing attribute)
parse_raises(doc) ==
    \/ ~doc.wellformed
    \/ doc.lacking # {}
    \/ \E k \in 1..Len(doc.folders) : doc.folders[k].lacking # {}

parse_xml_config_prepending(doc) ==
    [parsed |-> TRUE,
     root_tag |-> doc.root_tag,
     root_svn_path |-> doc.root_svn_path,
     source_url |-> doc.root_source,
     bm_folders |-> [k \in 1..Len(doc.folders) |->
                        <<doc.folders[Len(doc.folders) + 1 - k].name,
                          doc.folders[Len(doc.folders) + 1 - k].revision>>]]

\* lines 39-53: the three root values and one (name, revision) per folder element
parse_xml_config(doc) ==
    [parsed |-> TRUE,
     root_tag |-> doc.root_tag,
     root_svn_path |-> doc.root_svn_path,
     source_url |-> doc.root_source,
     bm_folders |-> [k \in 1..Len(doc.folders) |-> <<doc.folders[k].name, doc.folders[k].revision>>]]

\* -------------------------------------------------------- paths and text
XML_BASE_DIR == <<"input_xml_files">>

\* os.path.join(XML_BASE_DIR, file_name)
xml_path(file_name) == XML_BASE_DIR \o <<"/", file_name>>

\* line 112: tag_url = f'{root_svn_path}/{root_tag}'
tag_url_basepath(cfg) == cfg.root_svn_path

tag_url(cfg) == cfg.root_svn_path \o <<"/">> \o cfg.root_tag

\* line 59: ['svn', 'mkdir', tag_url, '-m', f"Creating BM-tag at {tag_url}"]
mkdir_command(url) == [url |-> url, msg |-> <<"Creating BM-tag at ">> \o url]

\* line 117
commit_message(cfg, folder_name, revision) ==
    <<"Copying BM \"">> \o folder_name \o <<"\" from revision \"">> \o revision
        \o <<"\" to Tag \"">> \o cfg.root_tag \o <<"\".">>

part_of_folder_name_split_all(folder_name) ==
    LET folder_parts == split(folder_name, US, Len(folder_name))
    IN  IF Len(folder_parts) = 3 THEN folder_parts[Len(folder_parts)] ELSE folder_name

\* lines 126-127: folder_name.split('_', 2), third part when there are three
part_of_folder_name(folder_name) ==
    LET folder_parts == split(folder_name, US, 2)
    IN  IF Len(folder_parts) = 3 THEN folder_parts[Len(folder_parts)] ELSE folder_name

\* line 118: destination_url = f'{root_svn_path}/{root_tag}/{folder_name}'
destination_url_display(cfg, folder_name) ==
    cfg.root_svn_path \o <<"/">> \o cfg.root_tag \o <<"/">> \o part_of_folder_name(folder_name)

destination_url(cfg, folder_name) ==
    cfg.root_svn_path \o <<"/">> \o cfg.root_tag \o <<"/">> \o folder_name

\* line 128: log_entry = f'{part_of_folder_name} : {destination_url}\n'
log_entry_no_newline(folder_name, dest) ==
    part_of_folder_name(folder_name) \o <<" : ">> \o dest

log_entry(folder_name, dest) ==
    part_of_folder_name(folder_name) \o <<" : ">> \o dest \o <<NL>>

\* lines 75-80: ['svn', 'cp', f'{source_url}@{revision}', destination_url, '-m', commit_message]
svn_copy_command(source_url, dest, revision, message) ==
    [src |-> source_url \o <<"@">> \o revision, dst |-> dest, msg |-> message]

\* ---------------------------------------------------------------- backend
\* how one invocation of svn ends: exit status 0, non-zero exit status, or
\* subprocess.run itself raising (svn not installed, ...)
BackendResults == {"ok", "nonzero", "exception"}

\* lines 63-69: CalledProcessError and every other Exception reach sys.exit(1)
create_fatal_only_status(result) == result = "nonzero"

create_fatal_without_check(result) == result = "exception"

create_fatal(result) == result # "ok"

copy_fatal_uncaught(result) == result = "exception"

\* lines 84-91: non-zero status is printed, any Exception is caught and printed
copy_fatal(result) == FALSE

\* ------------------------------------------------------------------ state
VARIABLES
    pc,                  \* where main() stands
    exitCode,            \* the process's exit status, -1 while it runs
    prompts,             \* how many times the menu has been answered
    lastInput,           \* the last line typed at the prompt
    disk,                \* input_xml_files: file name -> document, existing files only
    xml_file_path,       \* path of the selected file
    config,              \* root_tag, root_svn_path, source_url, bm_folders
    idx,                 \* folders whose loop iteration is complete
    log_file_path_bound, \* the local log_file_path has been assigned
    logFile,             \* content of BM_log
    preLog,              \* content of BM_log when the run started
    mkdirCalls,          \* svn mkdir invocations, with how each ended
    cpCalls,             \* svn cp invocations, with how each ended
    banner               \* "BM Tag Creation Successful" has been printed

vars == <<pc, exitCode, prompts, lastInput, disk, xml_file_path, config, idx,
          log_file_path_bound, logFile, preLog, mkdirCalls, cpCalls, banner>>

Typed(isInt, val) == [isInt |-> isInt, val |-> val]

NoInput == [isInt |-> FALSE, val |-> -1]

PreLogs == { <<>>, <<"Old", " : ", "/repo/tags", "/", "TAG0", "/", "Old", NL, NL>> }

Disks ==
    { d1 @@ d2 :
        d1 \in {<<>>} \cup {bm_options[1] :> doc : doc \in GoodDocuments \cup BadDocuments},
        d2 \in {<<>>} \cup {bm_options[2] :> doc : doc \in OtherDocuments} }

Init ==
    /\ pc = "SELECTING"
    /\ exitCode = -1
    /\ prompts = 0
    /\ lastInput = NoInput
    /\ disk \in Disks
    /\ xml_file_path = <<>>
    /\ config = NoConfig
    /\ idx = 0
    /\ log_file_path_bound = FALSE
    /\ logFile \in PreLogs
    /\ preLog = logFile
    /\ mkdirCalls = <<>>
    /\ cpCalls = <<>>
    /\ banner = FALSE

\* ------------------------------------------------------ selection (94-106)
SelectNonInteger_uncaught ==
    /\ pc = "SELECTING"
    /\ prompts < MaxPrompts
    /\ prompts' = prompts + 1
    /\ lastInput' = Typed(FALSE, 0)
    /\ pc' = "EXIT"
    /\ exitCode' = 1
    /\ UNCHANGED <<disk, xml_file_path, config, idx, log_file_path_bound,
                   logFile, preLog, mkdirCalls, cpCalls, banner>>

\* int(input()) raises ValueError: caught at line 105, the menu is shown again
SelectNonInteger ==
    /\ pc = "SELECTING"
    /\ prompts < MaxPrompts
    /\ prompts' = prompts + 1
    /\ lastInput' = Typed(FALSE, 0)
    /\ UNCHANGED <<pc, exitCode, disk, xml_file_path, config, idx, log_file_path_bound,
                   logFile, preLog, mkdirCalls, cpCalls, banner>>

SelectInvalidChoice_reprompts(k) ==
    /\ pc = "SELECTING"
    /\ prompts < MaxPrompts
    /\ get_user_selection(k).exits
    /\ prompts' = prompts + 1
    /\ lastInput' = Typed(TRUE, k)
    /\ UNCHANGED <<pc, exitCode, disk, xml_file_path, config, idx, log_file_path_bound,
                   logFile, preLog, mkdirCalls, cpCalls, banner>>

\* lines 32-34: exit() raises SystemExit with no status, the process ends with 0
SelectInvalidChoice(k) ==
    /\ pc = "SELECTING"
    /\ get_user_selection(k).exits
    /\ prompts' = prompts + 1
    /\ lastInput' = Typed(TRUE, k)
    /\ pc' = "EXIT"
    /\ exitCode' = 0
    /\ UNCHANGED <<disk, xml_file_path, config, idx, log_file_path_bound,
                   logFile, preLog, mkdirCalls, cpCalls, banner>>

\* lines 100-102: the file exists, leave the loop
SelectExistingFile(k) ==
    /\ pc = "SELECTING"
    /\ ~get_user_selection(k).exits
    /\ get_user_selection(k).file \in DOMAIN disk
    /\ prompts' = prompts + 1
    /\ lastInput' = Typed(TRUE, k)
    /\ xml_file_path' = xml_path(get_user_selection(k).file)
    /\ pc' = "PARSING"
    /\ UNCHANGED <<exitCode, disk, config, idx, log_file_path_bound,
                   logFile, preLog, mkdirCalls, cpCalls, banner>>

\* lines 103-104: the file is not on disk, the menu is shown again
SelectMissingFile(k) ==
    /\ pc = "SELECTING"
    /\ prompts < MaxPrompts
    /\ ~get_user_selection(k).exits
    /\ get_user_selection(k).file \notin DOMAIN disk
    /\ prompts' = prompts + 1
    /\ lastInput' = Typed(TRUE, k)
    /\ UNCHANGED <<pc, exitCode, disk, xml_file_path, config, idx, log_file_path_bound,
                   logFile, preLog, mkdirCalls, cpCalls, banner>>

\* ----------------------------------------------------------- parsing (109)
SelectedDocument == disk[xml_file_path[Len(xml_file_path)]]

ParseConfig ==
    /\ pc = "PARSING"
    /\ ~parse_raises(SelectedDocument)
    /\ config' = parse_xml_config(SelectedDocument)
    /\ pc' = "CREATING_TAG"
    /\ UNCHANGED <<exitCode, prompts, lastInput, disk, xml_file_path, idx,
                   log_file_path_bound, logFile, preLog, mkdirCalls, cpCalls, banner>>

\* the exception is not caught: traceback, exit status 1
ParseConfigRaises ==
    /\ pc = "PARSING"
    /\ parse_raises(SelectedDocument)
    /\ pc' = "EXIT"
    /\ exitCode' = 1
    /\ UNCHANGED <<prompts, lastInput, disk, xml_file_path, config, idx,
                   log_file_path_bound, logFile, preLog, mkdirCalls, cpCalls, banner>>

\* ---------------------------------------------------- tag creation (112-113)
\* a backend command line together with how the invocation ended
Invocation(command, result) == command @@ [result |-> result]

\* the for loop's head: next iteration, or fall through to line 134
LoopHead(done) == IF done < Len(config.bm_folders) THEN "LOG_WRITE" ELSE "SESSION_END"

CreateTagSucceeds(result) ==
    /\ pc = "CREATING_TAG"
    /\ ~create_fatal(result)
    /\ mkdirCalls' = Append(mkdirCalls, Invocation(mkdir_command(tag_url(config)), result))
    /\ pc' = LoopHead(0)
    /\ UNCHANGED <<exitCode, prompts, lastInput, disk, xml_file_path, config, idx,
                   log_file_path_bound, logFile, preLog, cpCalls, banner>>

CreateTagFails(result) ==
    /\ pc = "CREATING_TAG"
    /\ create_fatal(result)
    /\ mkdirCalls' = Append(mkdirCalls, Invocation(mkdir_command(tag_url(config)), result))
    /\ pc' = "EXIT"
    /\ exitCode' = 1
    /\ UNCHANGED <<prompts, lastInput, disk, xml_file_path, config, idx,
                   log_file_path_bound, logFile, preLog, cpCalls, banner>>

\* --------------------------------------------------- the copy loop (116-132)
CurrentFolder == config.bm_folders[idx + 1]

LogWrite_without_copy ==
    /\ pc = "LOG_WRITE"
    /\ log_file_path_bound' = TRUE
    /\ logFile' = logFile \o log_entry(CurrentFolder[1], destination_url(config, CurrentFolder[1]))
    /\ pc' = LoopHead(idx + 1)
    /\ idx' = idx + 1
    /\ UNCHANGED <<exitCode, prompts, lastInput, disk, xml_file_path, config,
                   preLog, mkdirCalls, cpCalls, banner>>

\* lines 121-129: bind log_file_path, append this folder's line to BM_log
LogWrite ==
    /\ pc = "LOG_WRITE"
    /\ log_file_path_bound' = TRUE
    /\ logFile' = logFile \o log_entry(CurrentFolder[1], destination_url(config, CurrentFolder[1]))
    /\ pc' = "COPY_ATTEMPT"
    /\ UNCHANGED <<exitCode, prompts, lastInput, disk, xml_file_path, config, idx,
                   preLog, mkdirCalls, cpCalls, banner>>

CopyAttempt_retry(result) ==
    LET call == Invocation(svn_copy_command(config.source_url,
                                            destination_url(config, CurrentFolder[1]),
                                            CurrentFolder[2],
                                            commit_message(config, CurrentFolder[1], CurrentFolder[2])),
                           result)
    IN  /\ pc = "COPY_ATTEMPT"
        /\ cpCalls' = IF result = "ok" THEN Append(cpCalls, call)
                                       ELSE Append(Append(cpCalls, call), call)
        /\ pc' = LoopHead(idx + 1)
        /\ idx' = idx + 1
        /\ UNCHANGED <<exitCode, prompts, lastInput, disk, xml_file_path, config,
                       log_file_path_bound, logFile, preLog, mkdirCalls, banner>>

\* line 132: svn_copy(source_url, destination_url, revision, commit_message)
CopyAttempt(result) ==
    /\ pc = "COPY_ATTEMPT"
    /\ cpCalls' = Append(cpCalls,
          Invocation(svn_copy_command(config.source_url,
                                      destination_url(config, CurrentFolder[1]),
                                      CurrentFolder[2],
                                      commit_message(config, CurrentFolder[1], CurrentFolder[2])),
                     result))
    /\ IF copy_fatal(result)
       THEN /\ pc' = "EXIT"
            /\ exitCode' = 1
            /\ idx' = idx
       ELSE /\ pc' = LoopHead(idx + 1)
            /\ idx' = idx + 1
            /\ exitCode' = exitCode
    /\ UNCHANGED <<prompts, lastInput, disk, xml_file_path, config,
                   log_file_path_bound, logFile, preLog, mkdirCalls, banner>>

\* ------------------------------------------------ end of the run (134-138)
\* the blank line, the banner, and main() returns: exit status 0
SessionEnd ==
    /\ pc = "SESSION_END"
    /\ log_file_path_bound
    /\ logFile' = logFile \o <<NL>>
    /\ banner' = TRUE
    /\ pc' = "DONE"
    /\ exitCode' = 0
    /\ UNCHANGED <<prompts, lastInput, disk, xml_file_path, config, idx,
                   log_file_path_bound, preLog, mkdirCalls, cpCalls>>

\* line 134 reads log_file_path, which only the loop body assigns: with no
\* folder the read raises UnboundLocalError, uncaught, exit status 1
SessionEndUnbound ==
    /\ pc = "SESSION_END"
    /\ ~log_file_path_bound
    /\ pc' = "EXIT"
    /\ exitCode' = 1
    /\ UNCHANGED <<prompts, lastInput, disk, xml_file_path, config, idx,
                   log_file_path_bound, logFile, preLog, mkdirCalls, cpCalls, banner>>

Next ==
    \/ SelectNonInteger
    \/ \E k \in 0..MaxInput : SelectInvalidChoice(k)
    \/ \E k \in 0..MaxInput : SelectExistingFile(k)
    \/ \E k \in 0..MaxInput : SelectMissingFile(k)
    \/ ParseConfig
    \/ ParseConfigRaises
    \/ \E r \in BackendResults : CreateTagSucceeds(r)
    \/ \E r \in BackendResults : CreateTagFails(r)
    \/ LogWrite
    \/ \E r \in BackendResults : CopyAttempt(r)
    \/ SessionEnd
    \/ SessionEndUnbound

Spec == Init /\ [][Next]_vars

\* the inputs that leave the prompt loop: a menu key whose file exists
\* (line 102) or an integer that is no menu key (line 34)
UserDecides ==
    \E k \in 0..MaxInput : SelectInvalidChoice(k) \/ SelectExistingFile(k)

\* every step of main() after the prompt loop; each backend call blocks
\* until svn returns (subprocess.run, lines 60 and 82)
ProgramStep ==
    \/ ParseConfig
    \/ ParseConfigRaises
    \/ \E r \in BackendResults : CreateTagSucceeds(r) \/ CreateTagFails(r) \/ CopyAttempt(r)
    \/ LogWrite
    \/ SessionEnd
    \/ SessionEndUnbound

\* the run when the user eventually gives a deciding input and every backend
\* invocation eventually returns: main() is sequential, so a step that can
\* be taken is taken
LiveSpec == Spec /\ WF_vars(UserDecides) /\ WF_vars(ProgramStep)

\* ============================================================ properties
Terminated == pc \in {"DONE", "EXIT"}

TagCreated == mkdirCalls # <<>> /\ mkdirCalls[Len(mkdirCalls)].result = "ok"

\* what this run has appended to BM_log, and its lines
RunText == SubSeq(logFile, Len(preLog) + 1, Len(logFile))

RunLines == split(RunText, NL, Len(RunText))

NonBlank(line) == line # <<>>

\* the completed (newline-terminated) non-blank lines of this run
RunFolderLines == SelectSeq(SubSeq(RunLines, 1, Len(RunLines) - 1), NonBlank)

\* the part of a log line after its " : "
DestOfLine(line) == split(line, " : ", 1)[2]

FolderName(k) == config.bm_folders[k][1]

FolderRevision(k) == config.bm_folders[k][2]

ExpectedTagPath == config.root_svn_path \o <<"/">> \o config.root_tag

ExpectedDest(k) == config.root_svn_path \o <<"/">> \o config.root_tag \o <<"/">> \o FolderName(k)

\* C1 as stated: in every run, create_svn_folder is attempted exactly once,
\* before any svn_copy, with destination <tag_base_path>/<tag_name>.
C1_TagCreatedOnceInEveryRun ==
    /\ Terminated => Len(mkdirCalls) = 1
    /\ cpCalls # <<>> => Len(mkdirCalls) = 1
    /\ \A k \in 1..Len(mkdirCalls) : mkdirCalls[k].url = ExpectedTagPath

\* C1 amended: create_svn_folder is attempted at most once per run, never
\* before the configuration is parsed, exactly once in every run that parsed
\* its configuration (by the time it ends, and before any svn_copy or log
\* write), and always with destination <tag_base_path>/<tag_name>.
C1_TagCreatedOncePerParsedRun ==
    /\ Len(mkdirCalls) <= 1
    /\ ~config.parsed => mkdirCalls = <<>>
    /\ (Terminated /\ config.parsed) => Len(mkdirCalls) = 1
    /\ (cpCalls # <<>> \/ pc \in {"LOG_WRITE", "COPY_ATTEMPT", "SESSION_END", "DONE"})
          => Len(mkdirCalls) = 1
    /\ \A k \in 1..Len(mkdirCalls) : mkdirCalls[k].url = ExpectedTagPath

C1_Witness ==
    /\ pc = "DONE"
    /\ Len(mkdirCalls) = 1
    /\ Len(cpCalls) = 2

\* C2: every copy's source reference is <source_base_path>/<folder_name>@<revision>,
\* so folders with different names are copied from different source paths.
C2_SourceIncludesFolderName ==
    /\ \A k \in 1..Len(cpCalls) :
          cpCalls[k].src = config.source_url \o <<"/">> \o FolderName(k) \o <<"@">> \o FolderRevision(k)
    /\ \A j, k \in 1..Len(cpCalls) :
          FolderName(j) # FolderName(k) => cpCalls[j].src # cpCalls[k].src

\* C3: when create_svn_folder fails (non-zero status or any other invocation
\* failure) the process has ended with a non-zero exit code, no copy was
\* attempted, nothing was appended to the log and no banner was printed.
C3_TagCreationFailureIsFatal ==
    \A k \in 1..Len(mkdirCalls) :
        mkdirCalls[k].result # "ok" =>
            /\ pc = "EXIT"
            /\ exitCode > 0
            /\ cpCalls = <<>>
            /\ logFile = preLog
            /\ ~banner

C3_Witness ==
    /\ mkdirCalls # <<>>
    /\ mkdirCalls[1].result = "exception"
    /\ pc = "EXIT"
    /\ Len(disk[bm_options[1]].folders) = 2
    /\ xml_file_path = xml_path(bm_options[1])

\* C4: once the tag is created, whatever the copies' outcomes, the run ends
\* with every configured folder attempted, the banner printed and exit code 0.
C4_AllFoldersAttemptedThenSuccess ==
    (Terminated /\ TagCreated) =>
        /\ Len(cpCalls) = Len(config.bm_folders)
        /\ pc = "DONE"
        /\ banner
        /\ exitCode = 0

\* C5: at DONE the log is its pre-existing content, then one line
\* '<display_name> : <destination_path>' per configured folder in order,
\* then exactly one blank line.
C5_LogAfterRun ==
    pc = "DONE" =>
        /\ Len(logFile) >= Len(preLog)
        /\ SubSeq(logFile, 1, Len(preLog)) = preLog
        /\ Len(RunLines) = Len(config.bm_folders) + 2
        /\ \A k \in 1..Len(config.bm_folders) :
              RunLines[k] = part_of_folder_name(FolderName(k)) \o <<" : ">> \o ExpectedDest(k)
        /\ RunLines[Len(config.bm_folders) + 1] = <<>>
        /\ RunLines[Len(config.bm_folders) + 2] = <<>>

C5_Witness ==
    /\ pc = "DONE"
    /\ Len(config.bm_folders) = 2
    /\ preLog # <<>>
    /\ \E k \in 1..Len(cpCalls) : cpCalls[k].result = "nonzero"

\* C6: with an empty folder list and the tag created, the run ends in DONE
\* with exit code 0, the banner, no copy, and only the blank line logged.
C6_EmptyFolderListCompletes ==
    (Terminated /\ TagCreated /\ config.bm_folders = <<>>) =>
        /\ pc = "DONE"
        /\ exitCode = 0
        /\ banner
        /\ cpCalls = <<>>
        /\ logFile = preLog \o <<NL>>

\* C7 as stated: every folder line this run has logged belongs to a folder
\* whose copy has already completed with success.
C7_LoggedOnlyAfterSuccessfulCopy ==
    \A k \in 1..Len(RunFolderLines) :
        /\ k <= Len(cpCalls)
        /\ cpCalls[k].result = "ok"

\* C7 amended: a folder's line is appended just before that folder's copy is
\* attempted and whatever its outcome: every folder line this run has logged
\* belongs to a folder whose copy has already been attempted (with success or
\* failure) or is the one being attempted next, and no copy is attempted
\* before its line is logged.
C7_LoggedBeforeCopyAnyOutcome ==
    /\ Len(cpCalls) <= Len(RunFolderLines)
    /\ \A k \in 1..Len(RunFolderLines) :
          /\ k <= Len(config.bm_folders)
          /\ DestOfLine(RunFolderLines[k]) = ExpectedDest(k)
          /\ \/ k <= Len(cpCalls) /\ cpCalls[k].dst = DestOfLine(RunFolderLines[k])
             \/ k = Len(cpCalls) + 1 /\ pc = "COPY_ATTEMPT"

C7_Witness ==
    /\ pc = "COPY_ATTEMPT"
    /\ Len(cpCalls) = 1
    /\ cpCalls[1].result = "nonzero"
    /\ Len(RunFolderLines) = 2

\* C8: a run ends either in DONE with the banner and exit code 0 or on a
\* fatal branch with a non-zero exit code (menu hard exit included).
C8_FatalExitsAreNonZero ==
    Terminated =>
        \/ pc = "DONE" /\ banner /\ exitCode = 0
        \/ pc = "EXIT" /\ ~banner /\ exitCode > 0

\* C9: an integer that is a menu key selects exactly the file mapped to it;
\* any other integer ends the process at once: nothing parsed, no tag, no
\* copy, nothing logged.
C9_SelectionByMenuKey ==
    /\ (lastInput.isInt /\ lastInput.val = 1 /\ pc # "SELECTING")
          => xml_file_path = <<"input_xml_files", "/", "01_BEV_SP21_7k4W.xml">>
    /\ (lastInput.isInt /\ lastInput.val = 2 /\ pc # "SELECTING")
          => xml_file_path = <<"input_xml_files", "/", "02_BEV_SP21_22kW.xml">>
    /\ (lastInput.isInt /\ lastInput.val \notin {1, 2}) =>
          /\ pc = "EXIT"
          /\ xml_file_path = <<>>
          /\ ~config.parsed
          /\ mkdirCalls = <<>>
          /\ cpCalls = <<>>
          /\ logFile = preLog
          /\ ~banner

C9_Witness ==
    /\ lastInput.isInt
    /\ lastInput.val = 3
    /\ pc = "EXIT"
    /\ prompts = 2
    /\ DOMAIN disk = MenuFiles

\* C10: the destination passed to svn cp and the one written in the folder's
\* log line are both <tag_base_path>/<tag_name>/<folder_name>, whatever the
\* copy's outcome, and never built from the shortened display name.
C10_DestinationPath ==
    /\ \A k \in 1..Len(cpCalls) : cpCalls[k].dst = ExpectedDest(k)
    /\ \A k \in 1..Len(RunFolderLines) : DestOfLine(RunFolderLines[k]) = ExpectedDest(k)

C10_Witness ==
    /\ Len(cpCalls) = 2
    /\ cpCalls[1].result = "nonzero"
    /\ cpCalls[2].result = "ok"
    /\ part_of_folder_name(FolderName(1)) # FolderName(1)
    /\ part_of_folder_name(FolderName(2)) # FolderName(2)
    /\ Len(RunFolderLines) = 2

\* the part of a log line before its " : "
DisplayOfLine(line) == split(line, " : ", 1)[1]

\* positions of the underscores of a name
Underscores(name) == {j \in 1..Len(name) : name[j] = US}

\* what follows the second underscore of a name that has at least two
AfterSecondUnderscore(name) ==
    LET second == CHOOSE j \in Underscores(name) :
                      Cardinality({i \in Underscores(name) : i < j}) = 1
    IN  SubSeq(name, second + 1, Len(name))

\* C11: the display name logged for a folder is what follows the second
\* underscore of its name when the name has at least two underscores (three
\* segments after cutting at the first two), and the whole name otherwise:
\* A_B_RestOfName -> RestOfName, A_B_C_D -> C_D, SingleName and
\* Inverter_22kW unchanged.
C11_DisplayName ==
    \A k \in 1..Len(RunFolderLines) :
        LET name == FolderName(k)
            shown == DisplayOfLine(RunFolderLines[k])
        IN  /\ Cardinality(Underscores(name)) >= 2 => shown = AfterSecondUnderscore(name)
            /\ Cardinality(Underscores(name)) < 2 => shown = name
            /\ name = <<"A", "_", "B", "_", "RestOfName">> => shown = <<"RestOfName">>
            /\ name = <<"A", "_", "B", "_", "C", "_", "D">> => shown = <<"C", "_", "D">>
            /\ name = <<"SingleName">> => shown = <<"SingleName">>
            /\ name = <<"Inverter", "_", "22kW">> => shown = <<"Inverter", "_", "22kW">>

C11_Witness ==
    /\ Len(RunFolderLines) = 2
    /\ FolderName(1) = <<"A", "_", "B", "_", "C", "_", "D">>
    /\ FolderName(2) = <<"Inverter", "_", "22kW">>
    /\ DisplayOfLine(RunFolderLines[1]) = <<"C", "_", "D">>

\* the last input was one the menu recovers from: not an integer, or a
\* menu key whose file is not on disk
RecoverableInput ==
    \/ prompts > 0 /\ ~lastInput.isInt
    \/ lastInput.isInt /\ lastInput.val = 1 /\ "01_BEV_SP21_7k4W.xml" \notin DOMAIN disk
    \/ lastInput.isInt /\ lastInput.val = 2 /\ "02_BEV_SP21_22kW.xml" \notin DOMAIN disk

\* C12: after a non-integer input, or a menu key whose file is missing, the
\* run is still SELECTING and alive: nothing parsed, no backend call, the
\* log unchanged, however many such inputs came before.
C12_RepromptOnRecoverableInput ==
    RecoverableInput =>
        /\ pc = "SELECTING"
        /\ exitCode = -1
        /\ xml_file_path = <<>>
        /\ ~config.parsed
        /\ mkdirCalls = <<>>
        /\ cpCalls = <<>>
        /\ logFile = preLog
        /\ ~banner

C12_Witness ==
    /\ prompts = 2
    /\ lastInput.isInt
    /\ lastInput.val = 2
    /\ bm_options[2] \notin DOMAIN disk
    /\ bm_options[1] \in DOMAIN disk
    /\ pc = "SELECTING"

\* C13: each step of the copy loop either appends exactly one folder line,
\* and then every earlier copy attempt has returned, or makes exactly one
\* copy attempt, for the folder whose line is the last one logged; copies
\* go through the folders in configuration order, one attempt each, so a
\* run at DONE has made exactly n attempts.
C13_CopiesInOrder ==
    /\ Len(cpCalls) <= Len(config.bm_folders)
    /\ \A k \in 1..Len(cpCalls) :
          /\ cpCalls[k].dst = ExpectedDest(k)
          /\ cpCalls[k].msg = <<"Copying BM \"">> \o FolderName(k) \o <<"\" from revision \"">>
                \o FolderRevision(k) \o <<"\" to Tag \"">> \o config.root_tag \o <<"\".">>
    /\ pc = "DONE" => Len(cpCalls) = Len(config.bm_folders)

\* how many complete non-blank lines this run has appended
FolderLinesLogged ==
    Cardinality({j \in 2..Len(RunText) : RunText[j] = NL /\ RunText[j - 1] # NL})

C13_LogThenCopyOncePerFolder ==
    [][ /\ Len(cpCalls') >= Len(cpCalls)
        /\ FolderLinesLogged' >= FolderLinesLogged
        /\ Len(cpCalls') > Len(cpCalls) =>
              /\ Len(cpCalls') = Len(cpCalls) + 1
              /\ FolderLinesLogged = Len(cpCalls')
              /\ logFile' = logFile
        /\ FolderLinesLogged' > FolderLinesLogged =>
              /\ FolderLinesLogged' = FolderLinesLogged + 1
              /\ Len(cpCalls) = FolderLinesLogged
              /\ cpCalls' = cpCalls
        /\ C13_CopiesInOrder' ]_vars

C13_Witness ==
    /\ pc = "LOG_WRITE"
    /\ Len(cpCalls) = 1
    /\ cpCalls[1].result = "nonzero"
    /\ Len(RunFolderLines) = 1

\* the document behind the selected path cannot be loaded: not well-formed,
\* or a required child element or attribute is absent
SelectedDocumentUnloadable ==
    /\ xml_file_path # <<>>
    /\ LET doc == disk[xml_file_path[Len(xml_file_path)]]
       IN  \/ ~doc.wellformed
           \/ doc.lacking # {}
           \/ \E k \in 1..Len(doc.folders) : doc.folders[k].lacking # {}

\* C14: when the selected configuration cannot be loaded the run never
\* returns to the menu: it is about to parse or has ended with exit code 1,
\* with no configuration, no tag creation, no copy and no log append.
C14_ParseFailureIsFatal ==
    SelectedDocumentUnloadable =>
        /\ pc \in {"PARSING", "EXIT"}
        /\ pc = "PARSING" => exitCode = -1
        /\ pc = "EXIT" => exitCode = 1
        /\ ~config.parsed
        /\ mkdirCalls = <<>>
        /\ cpCalls = <<>>
        /\ logFile = preLog
        /\ ~banner

C14_Witness ==
    /\ pc = "EXIT"
    /\ exitCode = 1
    /\ xml_file_path = <<"input_xml_files", "/", "01_BEV_SP21_7k4W.xml">>
    /\ disk["01_BEV_SP21_7k4W.xml"].wellformed
    /\ disk["01_BEV_SP21_7k4W.xml"].lacking = {"root_source"}
    /\ prompts = 1

\* C15: an exception raised by invoking the backend for a copy never ends
\* the run: the loop goes on, and a run that has ended after one did so in
\* DONE, exit code 0, banner printed, every folder attempted.  Raised for
\* the tag creation it ends the run with a non-zero exit code, before any
\* copy or log write.
C15_UnexpectedBackendException ==
    /\ \A k \in 1..Len(cpCalls) :
          cpCalls[k].result = "exception" =>
              /\ pc \in {"LOG_WRITE", "COPY_ATTEMPT", "SESSION_END", "DONE"}
              /\ (k < Len(config.bm_folders) /\ Len(cpCalls) = k) => pc \in {"LOG_WRITE", "COPY_ATTEMPT"}
              /\ Terminated =>
                    /\ pc = "DONE"
                    /\ exitCode = 0
                    /\ banner
                    /\ Len(cpCalls) = Len(config.bm_folders)
    /\ \A k \in 1..Len(mkdirCalls) :
          mkdirCalls[k].result = "exception" =>
              /\ pc = "EXIT"
              /\ exitCode > 0
              /\ cpCalls = <<>>
              /\ FolderLinesLogged = 0
              /\ logFile = preLog

C15_Witness ==
    /\ pc = "DONE"
    /\ exitCode = 0
    /\ Len(cpCalls) = 2
    /\ cpCalls[1].result = "exception"
    /\ cpCalls[2].result = "ok"

\* the configuration holds what the selected document says, folder by folder
ConfigMatchesDocument ==
    /\ xml_file_path # <<>>
    /\ LET doc == disk[xml_file_path[Len(xml_file_path)]]
       IN  /\ config.root_tag = doc.root_tag
           /\ config.root_svn_path = doc.root_svn_path
           /\ config.source_url = doc.root_source
           /\ Len(config.bm_folders) = Len(doc.folders)
           /\ \A k \in 1..Len(doc.folders) :
                 config.bm_folders[k] = <<doc.folders[k].name, doc.folders[k].revision>>

\* every backend call so far carries the configuration's tag name and base path
CallsUseOneTag ==
    /\ \A k \in 1..Len(mkdirCalls) :
          /\ mkdirCalls[k].url = ExpectedTagPath
          /\ mkdirCalls[k].msg = <<"Creating BM-tag at ">> \o ExpectedTagPath
    /\ \A k \in 1..Len(cpCalls) :
          /\ SubSeq(cpCalls[k].dst, 1, Len(ExpectedTagPath)) = ExpectedTagPath
          /\ SubSeq(cpCalls[k].msg, Len(cpCalls[k].msg) - Len(config.root_tag),
                    Len(cpCalls[k].msg) - 1) = config.root_tag

\* C16: the configuration is built in one step, the parsing step that
\* follows selection, from the selected document (one (name, revision) pair
\* per folder element, in document order); no later step (tag creation, log
\* write, copy attempt of any outcome) changes it, and every backend call
\* carries its tag name and base path.
C16_ConfigurationBuiltOnceThenFrozen ==
    [][ /\ config.parsed => config' = config
        /\ config' # config => (pc = "PARSING" /\ ~config.parsed /\ config'.parsed)
        /\ config'.parsed => (ConfigMatchesDocument' /\ CallsUseOneTag')
        /\ ~config'.parsed => (mkdirCalls' = <<>> /\ cpCalls' = <<>>) ]_vars

C16_Witness ==
    /\ pc = "DONE"
    /\ config.parsed
    /\ Len(config.bm_folders) = 2
    /\ config.bm_folders[1] # config.bm_folders[2]
    /\ cpCalls[1].result = "nonzero"
    /\ cpCalls[2].result = "exception"

\* the copy loop has made at most one iteration per configured folder
CopyLoopBounded ==
    /\ idx <= Len(config.bm_folders)
    /\ Len(cpCalls) <= Len(config.bm_folders)
    /\ FolderLinesLogged <= Len(config.bm_folders)
    /\ pc \in {"LOG_WRITE", "COPY_ATTEMPT"} => idx < Len(config.bm_folders)

\* C17: if the user eventually enters a deciding integer and every backend
\* invocation eventually returns, the run eventually ends (DONE or a fatal
\* exit); the copy loop makes at most n iterations for n configured folders.
C17_Termination == <>Terminated /\ []CopyLoopBounded

C17_Witness ==
    /\ pc = "DONE"
    /\ prompts > 1
    /\ idx = 2
    /\ idx = Len(config.bm_folders)

\* C18: the folder lines this run has logged number as many as the copy
\* attempts made so far, or one more (the line of the copy that comes next);
\* nothing is logged unless the tag creation has succeeded; and the lines
\* are exactly those of the first folders of the configuration, in order,
\* each complete.
C18_LogIsPrefixOfFolderOrder ==
    /\ Len(RunFolderLines) - Len(cpCalls) \in {0, 1}
    /\ Len(logFile) >= Len(preLog)
    /\ logFile # preLog => TagCreated
    /\ ~TagCreated => (cpCalls = <<>> /\ SubSeq(logFile, 1, Len(preLog)) = logFile)
    /\ Len(RunFolderLines) <= Len(config.bm_folders)
    /\ \A k \in 1..Len(RunFolderLines) :
          RunFolderLines[k] = part_of_folder_name(FolderName(k)) \o <<" : ">> \o ExpectedDest(k)
    /\ RunLines[Len(RunLines)] = <<>>
    /\ pc # "DONE" => Len(RunLines) = Len(RunFolderLines) + 1

C18_Witness ==
    /\ pc = "COPY_ATTEMPT"
    /\ cpCalls = <<>>
    /\ Len(RunFolderLines) = 1
    /\ Len(config.bm_folders) = 2
    /\ preLog # <<>>

====
